---------------------------- MODULE Spec2Model ----------------------------
(***************************************************************************)
(* Model of shinysdr/types.py (value types: Range, Enum, BareType,         *)
(* to_value_type) and shinysdr/dependencies.py (DependencyTester).         *)
(*                                                                         *)
(* Numbers.  Python floats are modelled as fixed-point numbers counted in  *)
(* halves: the model integer n stands for the number n/2.  Halves are      *)
(* closed under everything Range.__call__ computes on them (round, the     *)
(* nearest power of two of a number >= 1/2, min/max selection, + offset).  *)
(***************************************************************************)
EXTENDS Integers, Sequences, FiniteSets, TLC

VARIABLES
    rng,        \* the Range under test (its private fields)
    last,       \* the last operation on rng: its argument and outcome
    heap,       \* dict objects: identity -> set of keys
    enum,       \* the Enum under test (its private fields)
    refs,       \* identities of the dicts the caller holds a reference to
    elast,      \* the last operation on enum: its argument and outcome
    objs,       \* the objects to_value_type is given or allocates, by identity
    tlast,      \* the last to_value_type or BareType call
    tester,     \* the DependencyTester: its sets missing, broken and old
    dlast       \* the checks made so far and the last one

rangeVars == <<rng, last>>
enumVars == <<heap, enum, refs, elast>>
tvtVars == <<objs, tlast>>
depVars == <<tester, dlast>>
vars == <<rng, last, heap, enum, refs, elast, objs, tlast, tester, dlast>>

\* One model unit is 1/Unit: float(specimen) is a count of halves.
Unit == 2

\* Bounds of the explored inputs (in halves).
MaxNeg == 2
MaxPos == 5
MaxSubranges == 2
MaxWrappers == 2
MaxChecks == 2
SpecimenMargin == 2

Vals == (-MaxNeg)..MaxPos
Specimens == (-MaxNeg - SpecimenMargin)..(MaxPos + SpecimenMargin)
Offsets == (-Unit - 1)..(Unit + 1)

Abs(v) == IF v < 0 THEN -v ELSE v

\* Outcome of a call: a returned value or a raised exception.
Ret(v) == [exc |-> "none", val |-> v]
Raise(e) == [exc |-> e, val |-> 0]

-----------------------------------------------------------------------------
(* Enum *)

\* Python values are pairs <<type name, text>>: 1 is <<"int", "1">> and u'1'
\* is <<"unicode", "1">>; the two are different dict keys.
PyUnicode(t) == <<"unicode", t>>
PyInt(t) == <<"int", t>>
PyNone == <<"NoneType", "None">>

\* Outcomes of calls on Python values.
PyRet(v) == [exc |-> "none", val |-> v]
PyRaise(e) == [exc |-> e, val |-> PyNone]

EnumBaseTypes == {"unicode", "int"}
EnumKeys == {PyUnicode("a"), PyUnicode("1"), PyInt("1")}
EnumSpecimens == {PyUnicode("a"), PyUnicode("b"), PyUnicode("1"), PyInt("1"), PyNone}
BaseTypes == {"unicode", "int", "bool"}

\* base_type(specimen) for the builtin types: unicode(x) is the text of x;
\* int(x) parses a text and raises ValueError on a non-numeric one and
\* TypeError on None; bool(x) is the truth value of x.
Convert(base, x) ==
    CASE base = "unicode" -> PyRet(PyUnicode(x[2]))
      [] base = "int" ->
           IF x[1] = "int" THEN PyRet(x)
           ELSE IF x[1] = "unicode"
                THEN IF x[2] \in {"1"} THEN PyRet(PyInt(x[2])) ELSE PyRaise("ValueError")
                ELSE PyRaise("TypeError")
      [] base = "bool" ->
           IF x = PyNone \/ x = PyUnicode("") \/ x = PyInt("0")
           THEN PyRet(<<"bool", "False">>)
           ELSE PyRet(<<"bool", "True">>)

\* Identities of the dict objects: the mapping the caller passes to the
\* constructor, and the copy dict(values) allocates.
CallerDict == 1
CopyDict == 2

\* The strict flag ignored: every non-member is rejected.
EnumCallMutAlwaysStrict(e, h, x) ==
    LET c == Convert(e.base_type, x)
    IN IF c.exc # "none" THEN c
       ELSE IF c.val \notin h[e.values] THEN PyRaise("ValueError")
       ELSE c

\* Enum.__call__ on the current contents of self.__values.
EnumCall(e, h, x) ==
    LET c == Convert(e.base_type, x)
    IN IF c.exc # "none" THEN c
       ELSE IF c.val \notin h[e.values] /\ e.strict THEN PyRaise("ValueError")
       ELSE c

-----------------------------------------------------------------------------
(* Range *)

\* Range.__init__: the subranges are split into two fresh lists.
Range(subranges, strict, logarithmic, integer) ==
    [mins |-> [i \in 1..Len(subranges) |-> subranges[i][1]],
     maxes |-> [i \in 1..Len(subranges) |-> subranges[i][2]],
     strict |-> strict,
     logarithmic |-> logarithmic,
     integer |-> integer]

\* The rounding forgotten.
RoundMutNone(v) == v

\* int(round(x)): Python 2 rounds to the nearest integer, halves away from zero.
round(v) ==
    LET q == ((2 * Abs(v) + Unit) \div (2 * Unit)) * Unit
    IN IF v < 0 THEN -q ELSE q

\* 2 ** int(round(math.log(x, 2))) for x > 0: the power of two p (counted in
\* halves, p = 1 is 2 ** -1) with p / sqrt(2) < x < p * sqrt(2).
RECURSIVE Pow2Near(_, _)
Pow2Near(v, p) == IF v * v < 2 * p * p THEN p ELSE Pow2Near(v, 2 * p)

\* math.log(x, 2) raises ValueError for x <= 0.
LogQuantize(v) == IF v <= 0 THEN Raise("ValueError") ELSE Ret(Pow2Near(v, 1))

\* The logarithm forgotten: 2 ** int(round(x)).
RECURSIVE TwoToThe(_)
TwoToThe(k) == IF k <= 0 THEN 1 ELSE 2 * TwoToThe(k - 1)

QuantizeMutNoLog(r, x) ==
    IF r.integer
    THEN IF r.logarithmic
         THEN LET s == IF x <= 0 THEN r.mins[1] ELSE x
              IN IF s <= 0 THEN Raise("ValueError")
                 ELSE Ret(Unit * TwoToThe(round(s) \div Unit))
         ELSE Ret(round(x))
    ELSE Ret(x)

\* Lines 138-145: quantization.
Quantize(r, x) ==
    IF r.integer
    THEN IF r.logarithmic
         THEN LogQuantize(IF x <= 0 THEN r.mins[1] ELSE x)
         ELSE Ret(round(x))
    ELSE Ret(x)

\* bisect.bisect_right(a, x) on the 1-based sequence a: lo, hi are 0-based.
RECURSIVE BisectLoop(_, _, _, _)
BisectLoop(a, x, lo, hi) ==
    IF lo < hi
    THEN LET mid == (lo + hi) \div 2
         IN IF x < a[mid + 1]
            THEN BisectLoop(a, x, lo, mid)
            ELSE BisectLoop(a, x, mid + 1, hi)
    ELSE lo

bisect_right(a, x) == BisectLoop(a, x, 0, Len(a))

\* The tie sent to the upper subrange.
SelectMutTieUp(r, s) ==
    LET i0 == bisect_right(r.mins, s) - 1
        i == IF i0 < 0 THEN 0 ELSE i0
    IN IF i < Len(r.mins) - 1 /\ r.mins[i + 2] - s <= s - r.maxes[i + 1]
       THEN i + 1
       ELSE i

\* Lines 151-157: the 0-based index of the chosen subrange.
Select(r, s) ==
    LET i0 == bisect_right(r.mins, s) - 1
        i == IF i0 < 0 THEN 0 ELSE i0
    IN IF i < Len(r.mins) - 1 /\ r.mins[i + 2] - s < s - r.maxes[i + 1]
       THEN i + 1
       ELSE i

\* Lines 160-163: clamp to the chosen subrange.
Clamp(r, i, s) ==
    IF s < r.mins[i + 1] THEN r.mins[i + 1]
    ELSE IF s > r.maxes[i + 1] THEN r.maxes[i + 1]
    ELSE s

\* Range.__call__.
Call(r, x) ==
    LET q == Quantize(r, x)
    IN IF q.exc # "none" THEN q
       ELSE IF r.strict THEN Ret(Clamp(r, Select(r, q.val), q.val))
       ELSE q

\* The integer flag carried over whatever the offset.
ShiftedByMutKeepInteger(r, offset) ==
    Range([i \in 1..Len(r.mins) |-> <<r.mins[i] + offset, r.maxes[i] + offset>>],
          r.strict, r.logarithmic, r.integer)

\* Range.shifted_by.
shifted_by(r, offset) ==
    Range([i \in 1..Len(r.mins) |-> <<r.mins[i] + offset, r.maxes[i] + offset>>],
          r.strict, r.logarithmic, r.integer /\ offset % Unit = 0)

\* Range.type_to_json: zip() builds a fresh list of pairs.
RangeTypeToJson(r) ==
    [type |-> "range",
     subranges |-> [i \in 1..Len(r.mins) |-> <<r.mins[i], r.maxes[i]>>],
     logarithmic |-> r.logarithmic,
     integer |-> r.integer]

get_min(r) == r.mins[1]
get_max(r) == r.maxes[Len(r.maxes)]
get_single_point(r) ==
    IF Len(r.mins) # 1 THEN Raise("None")
    ELSE IF r.mins[1] = r.maxes[1] THEN Ret(r.mins[1]) ELSE Raise("None")

\* Subrange lists satisfying the data-model invariant: n subranges with
\* min <= max, sorted, pairwise disjoint, all bounds >= lo.
RECURSIVE SubrangeListsFrom(_, _)
SubrangeListsFrom(n, lo) ==
    IF n = 0 THEN {<<>>}
    ELSE UNION {{<<<<a, b>>>> \o t : t \in SubrangeListsFrom(n - 1, b + 1)} :
                <<a, b>> \in {p \in (lo..MaxPos) \X (lo..MaxPos) : p[1] <= p[2]}}

SubrangeLists == UNION {SubrangeListsFrom(n, -MaxNeg) : n \in 1..MaxSubranges}

-----------------------------------------------------------------------------
(* to_value_type and BareType *)

ValueTypeClasses == {"BareType", "Constant", "Enum", "Range", "Notice", "BulkDataType"}

\* Candidates: an instance (by identity), a type, or another value.
Instance(i) == [kind |-> "instance", ref |-> i, name |-> "-"]
TypeToken(t) == [kind |-> "type", ref |-> 0, name |-> t]
OtherValue(n) == [kind |-> "other", ref |-> 0, name |-> n]
OtherValues == {"None", "u'boolean'", "5"}

RetRef(i) == [exc |-> "none", ref |-> i]
RaiseRef(e) == [exc |-> e, ref |-> 0]

\* BareType.__init__.
BareType(python_type) == [cls |-> "BareType", python_type |-> python_type]

\* A value type wrapped once more instead of returned.
ToValueTypeMutRewrap(os, c) ==
    IF c.kind = "type" \/ (c.kind = "instance" /\ os[c.ref].cls \in ValueTypeClasses)
    THEN [out |-> RetRef(Len(os) + 1),
          objs |-> Append(os, BareType(IF c.kind = "type" THEN c.name ELSE os[c.ref].cls))]
    ELSE [out |-> RaiseRef("TypeError"), objs |-> os]

\* to_value_type(typeoid) on the objects os: its outcome and the objects after.
to_value_type(os, c) ==
    IF c.kind = "instance" /\ os[c.ref].cls \in ValueTypeClasses
    THEN [out |-> RetRef(c.ref), objs |-> os]
    ELSE IF c.kind = "type"
         THEN [out |-> RetRef(Len(os) + 1), objs |-> Append(os, BareType(c.name))]
         ELSE [out |-> RaiseRef("TypeError"), objs |-> os]

\* BareType.__call__.
BareCall(o, x) == Convert(o.python_type, x)

\* BareType.type_to_json.
BareTypeToJson(o) == IF o.python_type = "bool" THEN "boolean" ELSE "None"

-----------------------------------------------------------------------------
(* DependencyTester *)

\* Module names and attribute paths are sequences of their dotted components.
ModuleNames == {<<"gnuradio">>, <<"gnuradio", "blocks">>}
DepNames == {"GNU Radio"}
AttrPaths == {<<"a">>, <<"a", "b">>}

\* What import_module(module_name) does: it returns the module, or raises
\* ImportError with a message ('No module named <tail>' or another text), or
\* raises another exception.
ImportResults ==
    {[kind |-> "module", named |-> FALSE, tail |-> <<>>]}
        \cup {[kind |-> "ImportError", named |-> TRUE, tail |-> t] :
                 t \in {<<"gnuradio">>, <<"blocks">>, <<"numpy">>}}
        \cup {[kind |-> "ImportError", named |-> FALSE, tail |-> <<>>]}
        \cup {[kind |-> "Exception", named |-> FALSE, tail |-> <<>>]}

\* What reading one attribute does: "present" reads, "absent" raises
\* AttributeError, "raises" raises another exception on every read, "flaky"
\* reads for hasattr and raises on the read after it.
InnerStatus == {"present", "absent", "raises"}
FinalStatus == {"present", "absent", "raises", "flaky"}

\* The statuses of the attributes along a path: every one but the last is
\* stable.
AttrWorlds(path) ==
    {st \in [1..Len(path) -> FinalStatus] :
        \A k \in 1..(Len(path) - 1) : st[k] \in InnerStatus}

\* module_name.endswith(tail), by components.
EndsWith(name, tail) ==
    /\ Len(tail) <= Len(name)
    /\ SubSeq(name, Len(name) - Len(tail) + 1, Len(name)) = tail

\* hasattr(specimen, name): Python 2 answers False on any exception.
Hasattr(status) == status \in {"present", "flaky"}

\* hasattr_path(specimen, path) from component k on; loaded is FALSE for None.
RECURSIVE hasattr_path(_, _, _)
hasattr_path(loaded, st, k) ==
    IF k = Len(st)
    THEN loaded /\ Hasattr(st[k])
    ELSE loaded /\ Hasattr(st[k]) /\ hasattr_path(loaded, st, k + 1)

\* getattr_path(specimen, path) raises when a read along the path raises.
GetattrPathRaises(st) == \E k \in 1..Len(st) : st[k] # "present"

Entry(dep_name, module_name, attr_path, check) ==
    <<dep_name, module_name, attr_path, check>>

\* check_attr: the tester after it.
check_attr(t, module_name, dep_name, loaded, attr_path, st, old) ==
    IF ~hasattr_path(loaded, st, 1)
    THEN IF old
         THEN [t EXCEPT !.old = @ \cup {Entry(dep_name, module_name, attr_path, "not present")}]
         ELSE [t EXCEPT !.missing = @ \cup {Entry(dep_name, module_name, attr_path, "not present")}]
    ELSE IF GetattrPathRaises(st)
         THEN [t EXCEPT !.broken = @ \cup {Entry(dep_name, module_name, attr_path, "Error checking")}]
         ELSE t

\* check_module: the tester after it (old is not used); the module is
\* returned exactly when imp is the module.
check_module(t, module_name, dep_name, imp, old) ==
    IF imp.kind = "module" THEN t
    ELSE IF imp.kind = "ImportError"
         THEN IF imp.named
              THEN IF EndsWith(module_name, imp.tail)
                   THEN [t EXCEPT !.missing = @ \cup {Entry(dep_name, module_name, <<>>, "not present")}]
                   ELSE [t EXCEPT !.broken = @ \cup {Entry(dep_name, module_name, <<>>, "failed to import")}]
              ELSE t
         ELSE [t EXCEPT !.broken = @ \cup {Entry(dep_name, module_name, <<>>, "failed to import")}]

\* check_module_attr: check_module, then check_attr with old=True on what it
\* returned.
check_module_attr(t, module_name, dep_name, imp, attr_path, st, old) ==
    check_attr(check_module(t, module_name, dep_name, imp, old),
               module_name, dep_name, imp.kind = "module", attr_path, st, TRUE)

\* report(): None, or the headings that have entries, in order.
Headings(t) ==
    (IF t.missing # {} THEN <<"missing">> ELSE <<>>)
        \o (IF t.broken # {} THEN <<"not installed correctly">> ELSE <<>>)
        \o (IF t.old # {} THEN <<"too old">> ELSE <<>>)

report(t) == [none |-> Headings(t) = <<>>, headings |-> Headings(t)]

\* DependencyTester.__init__.
NewTester == [missing |-> {}, broken |-> {}, old |-> {}]

-----------------------------------------------------------------------------
(* States after construction *)

ENoCall == [op |-> "new", arg |-> PyNone, out |-> PyRet(PyNone), built |-> {}]

\* Enum.__init__(values, strict, base_type): self.__values = dict(values).
EnumInit(ks, st, bt) ==
    /\ heap = [d \in {CallerDict, CopyDict} |-> ks]
    /\ enum = [values |-> CopyDict, strict |-> st, base_type |-> bt]
    /\ refs = {CallerDict}
    /\ elast = [ENoCall EXCEPT !.built = ks]

IdleEnum == EnumInit({}, FALSE, "unicode")

NoCall == [op |-> "new", arg |-> 0, fed |-> FALSE, out |-> Ret(0)]

IdleRange ==
    /\ rng = Range(<<<<0, 0>>>>, TRUE, FALSE, FALSE)
    /\ last = NoCall

\* The objects that exist before any to_value_type call: two value types and
\* an object that is neither a value type nor a type.
FirstObjects ==
    <<[cls |-> "Range", python_type |-> "-"],
      [cls |-> "Constant", python_type |-> "-"],
      [cls |-> "object", python_type |-> "-"]>>

TNoCall ==
    [op |-> "new", cand |-> OtherValue("None"), fed |-> FALSE, before |-> <<>>,
     out |-> RaiseRef("-"), arg |-> PyNone, res |-> PyRet(PyNone)]

IdleTvt ==
    /\ objs = FirstObjects
    /\ tlast = TNoCall

DNoCheck ==
    [op |-> "new", checks |-> 0, anyFailed |-> FALSE, failed |-> FALSE,
     before |-> NewTester, report |-> report(NewTester)]

IdleDep ==
    /\ tester = NewTester
    /\ dlast = DNoCheck

-----------------------------------------------------------------------------
(* Enum: operations *)

InitEnum ==
    /\ IdleRange
    /\ IdleTvt
    /\ IdleDep
    /\ \E ks \in SUBSET EnumKeys, st \in BOOLEAN, bt \in EnumBaseTypes : EnumInit(ks, st, bt)

\* Enum.values(): returns self.__values itself.
EnumValues ==
    /\ refs' = refs \cup {enum.values}
    /\ elast' = [elast EXCEPT !.op = "values"]
    /\ UNCHANGED <<heap, enum>>
    /\ UNCHANGED <<rangeVars, tvtVars, depVars>>

\* Enum.type_to_json(): a fresh dict whose 'values' entry is self.__values.
EnumTypeToJson ==
    /\ refs' = refs \cup {enum.values}
    /\ elast' = [elast EXCEPT !.op = "type_to_json"]
    /\ UNCHANGED <<heap, enum>>
    /\ UNCHANGED <<rangeVars, tvtVars, depVars>>

\* The caller adds or deletes key k in a dict it holds a reference to.
CallerMutates(d, k) ==
    /\ d \in refs
    /\ heap' = [heap EXCEPT ![d] = IF k \in @ THEN @ \ {k} ELSE @ \cup {k}]
    /\ elast' = [elast EXCEPT !.op = "mutate"]
    /\ UNCHANGED <<enum, refs>>
    /\ UNCHANGED <<rangeVars, tvtVars, depVars>>

EnumCoerce(x) ==
    /\ elast' = [elast EXCEPT !.op = "call", !.arg = x, !.out = EnumCall(enum, heap, x)]
    /\ UNCHANGED <<heap, enum, refs>>
    /\ UNCHANGED <<rangeVars, tvtVars, depVars>>

NextEnum ==
    \/ EnumValues
    \/ EnumTypeToJson
    \/ \E d \in DOMAIN heap, k \in EnumKeys : CallerMutates(d, k)
    \/ \E x \in EnumSpecimens : EnumCoerce(x)

SpecEnum == InitEnum /\ [][NextEnum]_vars

-----------------------------------------------------------------------------
(* Range: operations *)

InitRange ==
    /\ IdleEnum
    /\ IdleTvt
    /\ IdleDep
    /\ \E s \in SubrangeLists, st \in BOOLEAN, lg \in BOOLEAN, ig \in BOOLEAN :
          rng = Range(s, st, lg, ig)
    /\ last = NoCall

\* coerce(x) for a fresh specimen.
Coerce(x) ==
    /\ last' = [op |-> "call", arg |-> x, fed |-> FALSE, out |-> Call(rng, x)]
    /\ UNCHANGED rng
    /\ UNCHANGED <<enumVars, tvtVars, depVars>>

\* coerce applied to the value the previous coerce returned.
Recoerce ==
    /\ last.op = "call"
    /\ last.out.exc = "none"
    /\ last' = [op |-> "call", arg |-> last.out.val, fed |-> TRUE,
                out |-> Call(rng, last.out.val)]
    /\ UNCHANGED rng
    /\ UNCHANGED <<enumVars, tvtVars, depVars>>

ShiftedBy(o) ==
    /\ last' = [op |-> "shifted_by", arg |-> o, fed |-> FALSE,
                out |-> shifted_by(rng, o)]
    /\ UNCHANGED rng
    /\ UNCHANGED <<enumVars, tvtVars, depVars>>

\* type_to_json, get_min, get_max and get_single_point only read the fields.
TypeToJson ==
    /\ last' = [op |-> "type_to_json", arg |-> 0, fed |-> FALSE,
                out |-> RangeTypeToJson(rng)]
    /\ UNCHANGED rng
    /\ UNCHANGED <<enumVars, tvtVars, depVars>>

GetMin ==
    /\ last' = [op |-> "get_min", arg |-> 0, fed |-> FALSE, out |-> Ret(get_min(rng))]
    /\ UNCHANGED rng
    /\ UNCHANGED <<enumVars, tvtVars, depVars>>

GetMax ==
    /\ last' = [op |-> "get_max", arg |-> 0, fed |-> FALSE, out |-> Ret(get_max(rng))]
    /\ UNCHANGED rng
    /\ UNCHANGED <<enumVars, tvtVars, depVars>>

GetSinglePoint ==
    /\ last' = [op |-> "get_single_point", arg |-> 0, fed |-> FALSE,
                out |-> get_single_point(rng)]
    /\ UNCHANGED rng
    /\ UNCHANGED <<enumVars, tvtVars, depVars>>

NextRange ==
    \/ \E x \in Specimens : Coerce(x)
    \/ Recoerce
    \/ \E o \in Offsets : ShiftedBy(o)
    \/ TypeToJson
    \/ GetMin
    \/ GetMax
    \/ GetSinglePoint

SpecRange == InitRange /\ [][NextRange]_vars

-----------------------------------------------------------------------------
(* to_value_type: operations *)

InitTvt ==
    /\ IdleRange
    /\ IdleEnum
    /\ IdleTvt
    /\ IdleDep

Candidates ==
    {Instance(i) : i \in 1..Len(objs)}
        \cup {TypeToken(t) : t \in BaseTypes}
        \cup {OtherValue(n) : n \in OtherValues}

ToValueType(c) ==
    /\ c.kind = "type" => Len(objs) < Len(FirstObjects) + MaxWrappers
    /\ LET r == to_value_type(objs, c)
       IN /\ objs' = r.objs
          /\ tlast' = [TNoCall EXCEPT !.op = "to_value_type", !.cand = c,
                                      !.before = objs, !.out = r.out]
    /\ UNCHANGED <<rangeVars, enumVars, depVars>>

\* to_value_type applied to what the previous to_value_type returned.
ToValueTypeAgain ==
    /\ tlast.op = "to_value_type"
    /\ tlast.out.exc = "none"
    /\ LET c == Instance(tlast.out.ref)
           r == to_value_type(objs, c)
       IN /\ objs' = r.objs
          /\ tlast' = [TNoCall EXCEPT !.op = "to_value_type", !.cand = c, !.fed = TRUE,
                                      !.before = objs, !.out = r.out]
    /\ UNCHANGED <<rangeVars, enumVars, depVars>>

\* coerce on a primitive wrapper.
BareCoerce(i, x) ==
    /\ objs[i].cls = "BareType"
    /\ tlast' = [TNoCall EXCEPT !.op = "call", !.cand = Instance(i), !.before = objs,
                                !.arg = x, !.res = BareCall(objs[i], x)]
    /\ UNCHANGED objs
    /\ UNCHANGED <<rangeVars, enumVars, depVars>>

BareDescribe(i) ==
    /\ objs[i].cls = "BareType"
    /\ tlast' = [TNoCall EXCEPT !.op = "type_to_json", !.cand = Instance(i),
                                !.before = objs,
                                !.res = PyRet(PyUnicode(BareTypeToJson(objs[i])))]
    /\ UNCHANGED objs
    /\ UNCHANGED <<rangeVars, enumVars, depVars>>

NextTvt ==
    \/ \E c \in Candidates : ToValueType(c)
    \/ ToValueTypeAgain
    \/ \E i \in 1..Len(objs), x \in EnumSpecimens : BareCoerce(i, x)
    \/ \E i \in 1..Len(objs) : BareDescribe(i)

SpecTvt == InitTvt /\ [][NextTvt]_vars

-----------------------------------------------------------------------------
(* DependencyTester: operations *)

InitDep ==
    /\ IdleRange
    /\ IdleEnum
    /\ IdleTvt
    /\ IdleDep

\* The record of a check: failed says whether this check did not succeed.
Checked(op, failed) ==
    [op |-> op, checks |-> dlast.checks + 1, anyFailed |-> dlast.anyFailed \/ failed,
     failed |-> failed, before |-> tester, report |-> dlast.report]

AttrFails(loaded, st) == ~hasattr_path(loaded, st, 1) \/ GetattrPathRaises(st)

CheckModule(m, d, imp, old) ==
    /\ dlast.checks < MaxChecks
    /\ tester' = check_module(tester, m, d, imp, old)
    /\ dlast' = Checked("check_module", imp.kind # "module")
    /\ UNCHANGED <<rangeVars, enumVars, tvtVars>>

CheckAttr(m, d, loaded, path, st, old) ==
    /\ dlast.checks < MaxChecks
    /\ tester' = check_attr(tester, m, d, loaded, path, st, old)
    /\ dlast' = Checked("check_attr", AttrFails(loaded, st))
    /\ UNCHANGED <<rangeVars, enumVars, tvtVars>>

CheckModuleAttr(m, d, imp, path, st, old) ==
    /\ dlast.checks < MaxChecks
    /\ tester' = check_module_attr(tester, m, d, imp, path, st, old)
    /\ dlast' = Checked("check_module_attr",
                        imp.kind # "module" \/ AttrFails(imp.kind = "module", st))
    /\ UNCHANGED <<rangeVars, enumVars, tvtVars>>

Report ==
    /\ dlast' = [dlast EXCEPT !.op = "report", !.report = report(tester)]
    /\ UNCHANGED tester
    /\ UNCHANGED <<rangeVars, enumVars, tvtVars>>

NextDep ==
    \/ \E m \in ModuleNames, d \in DepNames, imp \in ImportResults, old \in BOOLEAN :
          CheckModule(m, d, imp, old)
    \/ \E m \in ModuleNames, d \in DepNames, loaded \in BOOLEAN, path \in AttrPaths,
          old \in BOOLEAN :
          \E st \in AttrWorlds(path) : CheckAttr(m, d, loaded, path, st, old)
    \/ \E m \in ModuleNames, d \in DepNames, imp \in ImportResults, path \in AttrPaths,
          old \in BOOLEAN :
          \E st \in AttrWorlds(path) : CheckModuleAttr(m, d, imp, path, st, old)
    \/ Report

SpecDep == InitDep /\ [][NextDep]_vars

-----------------------------------------------------------------------------
(* Range: properties *)

IsCall == last.op = "call"
Returned == last.out.exc = "none"
Subranges == 1..Len(rng.mins)
InSubrange(v, i) == rng.mins[i] <= v /\ v <= rng.maxes[i]
InUnion(v) == \E i \in Subranges : InSubrange(v, i)
IsInteger(v) == v % Unit = 0
\* v (in halves) is 2 ** k for an integer k >= -1.
IsPowerOfTwo(v) == v > 0 /\ \E k \in 0..v : 2 ^ k = v
Bounds == {rng.mins[i] : i \in Subranges} \cup {rng.maxes[i] : i \in Subranges}
\* The bounds lie on the grid the quantization produces.
AlignedBounds ==
    IF rng.logarithmic THEN \A b \in Bounds : IsPowerOfTwo(b)
    ELSE \A b \in Bounds : IsInteger(b)

\* C1: a strict Range's coerce returns, for every flag combination and every
\* specimen, a value lying in one of the subranges.
C1_StrictResultInSomeSubrange ==
    (IsCall /\ rng.strict) => (Returned /\ InUnion(last.out.val))

\* Whenever a strict Range's coerce does return, the value lies in a subrange.
StrictReturnedResultInSomeSubrange ==
    (IsCall /\ rng.strict /\ Returned) => InUnion(last.out.val)

\* C2 as stated: coerce(coerce(x)) = coerce(x) for every Range, aligned bounds
\* or not.
C2_IdempotentAnyBounds ==
    (IsCall /\ last.fed) => last.out = Ret(last.arg)

\* C2 amended: coerce(coerce(x)) = coerce(x) when the Range does not quantize,
\* or quantizes to integers without clamping, or has all its bounds on the
\* quantization grid (integers; powers of two when logarithmic).
C2_IdempotentAligned ==
    (/\ IsCall
     /\ last.fed
     /\ \/ ~rng.integer
        \/ ~rng.strict /\ ~rng.logarithmic
        \/ AlignedBounds)
    => last.out = Ret(last.arg)

\* A second coerce of a clamped value of a strict integer Range with aligned
\* bounds, whose first specimen lay outside every subrange.
C2_Witness ==
    /\ IsCall
    /\ last.fed
    /\ rng.integer
    /\ rng.strict
    /\ AlignedBounds
    /\ Len(rng.mins) = 2
    /\ last.arg = rng.maxes[1]
    /\ last.out = Ret(last.arg)

\* C3: coerce never raises for a numeric specimen.
C3_CallNeverRaises == IsCall => Returned

\* C6: shifted_by(o) returns a Range with the same number of subranges in the
\* same order, every min and max increased by o, the same strict and
\* logarithmic flags, and integer kept exactly when the receiver is integer and
\* o has no fractional part.
C6_ShiftedShape ==
    last.op = "shifted_by" =>
        LET s == last.out
            o == last.arg
        IN /\ Len(s.mins) = Len(rng.mins)
           /\ Len(s.maxes) = Len(rng.maxes)
           /\ \A i \in Subranges : s.mins[i] = rng.mins[i] + o
           /\ \A i \in Subranges : s.maxes[i] = rng.maxes[i] + o
           /\ s.strict = rng.strict
           /\ s.logarithmic = rng.logarithmic
           /\ s.integer = (rng.integer /\ IsInteger(o))

\* C6, with the receiver left unchanged by every step.
C6_ShiftedByPreservesShape == [](C6_ShiftedShape) /\ [][rng' = rng]_vars

\* An integer Range of two subranges shifted by a fractional offset.
C6_Witness ==
    /\ last.op = "shifted_by"
    /\ Len(rng.mins) = 2
    /\ rng.integer
    /\ ~IsInteger(last.arg)
    /\ ~last.out.integer
    /\ last.out.mins[2] = rng.mins[2] + last.arg

\* C7 as stated: with integer=True coerce returns an integer (a power of two
\* when logarithmic), strict or not and whatever the bounds.
C7_IntegerWhateverBounds ==
    (IsCall /\ Returned /\ rng.integer) =>
        /\ IsInteger(last.out.val)
        /\ rng.logarithmic => IsPowerOfTwo(last.out.val)

\* C7 amended: with integer=True and logarithmic=False coerce returns an
\* integer when the Range is not strict or all its bounds are integers; with
\* both flags and all bounds powers of two it returns a power of two, an
\* integer one when the Range is strict and its bounds are integers; with
\* integer=False it returns the specimen itself or, when strict, a bound.
C7_IntegerWhenAligned ==
    IsCall =>
        /\ (rng.integer /\ ~rng.logarithmic /\ (~rng.strict \/ AlignedBounds))
              => (Returned /\ IsInteger(last.out.val))
        /\ (rng.integer /\ rng.logarithmic /\ AlignedBounds)
              => /\ Returned
                 /\ IsPowerOfTwo(last.out.val)
                 /\ (rng.strict /\ \A b \in Bounds : IsInteger(b))
                       => IsInteger(last.out.val)
        /\ ~rng.integer
              => /\ Returned
                 /\ \/ last.out.val = last.arg
                    \/ rng.strict /\ last.out.val \in Bounds

\* A fractional specimen rounded to an integer inside a strict integer Range.
C7_Witness ==
    /\ IsCall
    /\ rng.integer
    /\ ~rng.logarithmic
    /\ rng.strict
    /\ AlignedBounds
    /\ ~IsInteger(last.arg)
    /\ Returned
    /\ IsInteger(last.out.val)
    /\ rng.mins[1] < last.out.val
    /\ last.out.val < rng.maxes[1]

\* C9: for a strict Range, coerce returns the point of the union of the
\* subranges nearest to the quantized specimen, the lower one on a tie: a
\* quantized specimen inside a subrange is returned unchanged, one below every
\* subrange gives the first min, one above gives the last max.
C9_NearestPointOfUnion ==
    (IsCall /\ rng.strict /\ Quantize(rng, last.arg).exc = "none") =>
        LET q == Quantize(rng, last.arg).val
            v == last.out.val
        IN /\ Returned
           /\ InUnion(v)
           /\ \A p \in Vals :
                 InUnion(p) => \/ Abs(q - v) < Abs(q - p)
                               \/ Abs(q - v) = Abs(q - p) /\ v <= p
           /\ InUnion(q) => v = q
           /\ q < rng.mins[1] => v = rng.mins[1]
           /\ q > rng.maxes[Len(rng.maxes)] => v = rng.maxes[Len(rng.maxes)]

\* A quantized specimen exactly midway in the gap between two subranges.
C9_Witness ==
    /\ IsCall
    /\ rng.strict
    /\ rng.integer
    /\ Len(rng.mins) = 2
    /\ Quantize(rng, last.arg).exc = "none"
    /\ Quantize(rng, last.arg).val # last.arg
    /\ LET q == Quantize(rng, last.arg).val
       IN /\ rng.maxes[1] < q
          /\ q < rng.mins[2]
          /\ q - rng.maxes[1] = rng.mins[2] - q
    /\ last.out = Ret(rng.maxes[1])

-----------------------------------------------------------------------------
(* Enum: properties *)

EnumCalled == elast.op = "call"
Converted == Convert(enum.base_type, elast.arg)

\* C4 as stated: a lenient Enum's coerce never fails; a strict one fails with
\* ValueError exactly when the converted specimen is not a key, and otherwise
\* returns the converted specimen.
C4_EnumLeniency ==
    EnumCalled =>
        /\ ~enum.strict => elast.out.exc = "none"
        /\ (enum.strict /\ Converted.exc = "none") =>
              IF Converted.val \in heap[enum.values]
              THEN elast.out = Converted
              ELSE elast.out.exc = "ValueError"

\* C4 amended: when base_type cannot convert the specimen, coerce fails with
\* the conversion's error, strict or not; when it can, a lenient Enum returns
\* the converted specimen whether or not it is a key, and a strict one fails
\* with ValueError exactly when it is not a key and returns it otherwise.
C4_EnumLeniencyConvertible ==
    EnumCalled =>
        IF Converted.exc # "none" THEN elast.out = Converted
        ELSE IF enum.strict /\ Converted.val \notin heap[enum.values]
             THEN elast.out = PyRaise("ValueError")
             ELSE elast.out = Converted

\* A lenient Enum returning a converted specimen that is not a key.
C4_Witness ==
    /\ EnumCalled
    /\ ~enum.strict
    /\ heap[enum.values] # {}
    /\ Converted.exc = "none"
    /\ Converted.val # elast.arg
    /\ Converted.val \notin heap[enum.values]
    /\ elast.out = Converted

\* C5: nothing a caller does after construction changes the permitted values
\* an Enum's coerce uses.
C5_EnumValuesFixed ==
    /\ heap[enum.values] = elast.built
    /\ EnumCalled =>
          elast.out = EnumCall(enum, [heap EXCEPT ![enum.values] = elast.built], elast.arg)

-----------------------------------------------------------------------------
(* to_value_type: properties *)

\* C8: to_value_type returns a value type itself (so a second application
\* returns the first one's result), wraps a type in a new primitive wrapper
\* whose coerce is that type's conversion, and raises TypeError for anything
\* else, leaving no new object behind.
C8_ToValueType ==
    /\ tlast.op = "to_value_type" =>
          LET c == tlast.cand
              old == tlast.before
          IN /\ SubSeq(objs, 1, Len(old)) = old
             /\ IF c.kind = "instance" /\ old[c.ref].cls \in ValueTypeClasses
                THEN tlast.out = RetRef(c.ref) /\ objs = old
                ELSE IF c.kind = "type"
                     THEN /\ tlast.out = RetRef(Len(old) + 1)
                          /\ Len(objs) = Len(old) + 1
                          /\ objs[Len(objs)].cls = "BareType"
                          /\ objs[Len(objs)].python_type = c.name
                     ELSE tlast.out = RaiseRef("TypeError") /\ objs = old
    /\ (tlast.op = "to_value_type" /\ tlast.fed) => tlast.out = RetRef(tlast.cand.ref)
    /\ tlast.op = "call" =>
          tlast.res = Convert(objs[tlast.cand.ref].python_type, tlast.arg)

\* to_value_type applied to the wrapper a first application allocated.
C8_Witness ==
    /\ tlast.op = "to_value_type"
    /\ tlast.fed
    /\ tlast.cand.ref > Len(FirstObjects)
    /\ objs[tlast.cand.ref] = BareType("bool")
    /\ tlast.out = RetRef(tlast.cand.ref)
    /\ objs = tlast.before

-----------------------------------------------------------------------------
(* DependencyTester: properties *)

\* The headings that list an entry the last check added.
NewHeadings ==
    {h \in {"missing", "broken", "old"} :
        LET was == dlast.before
        IN CASE h = "missing" -> tester.missing # was.missing
             [] h = "broken" -> tester.broken # was.broken
             [] h = "old" -> tester.old # was.old}

\* C10: report() returns None exactly when every check made so far succeeded,
\* and one failed check_module_attr is listed under exactly one heading.
C10_ReportNoneIffAllChecksPassed ==
    /\ report(tester).none <=> ~dlast.anyFailed
    /\ dlast.op = "report" => (dlast.report.none <=> ~dlast.anyFailed)
    /\ (dlast.op = "check_module_attr" /\ dlast.failed /\ dlast.checks = 1)
          => Cardinality(NewHeadings) = 1
=============================================================================
